---- MODULE Spec2Model ----
(***************************************************************************)
(* Model of the Bioloid bus command layer (src/bioloid/bus.py, class Bus)  *)
(* talking through a byte transport (src/serial_port.py).  One operation   *)
(* of the Bus is in progress at a time; the transport is the environment:  *)
(* it answers a written frame with a script of bytes, and read_byte takes  *)
(* them one at a time or reports 'no byte'.                                *)
(***************************************************************************)
EXTENDS Integers, Sequences, FiniteSets, TLC

VARIABLES
    show,       \* Bus.show, the diagnostic bitmask given to Bus.__init__
    pc,         \* "idle" | "read" (in read_status_packet, before read_byte)
                \* | "status" (read_status_packet ended) | "done"
    op,         \* the public operation in progress and its arguments
    trace,      \* transport calls and callbacks of the operation, in order
    rx,         \* what the transport will deliver, oldest first (NoByte = a timeout)
    pkt,        \* the Packet being assembled by read_status_packet
    rstat,      \* how read_status_packet ended: NONE = returned pkt, else BusError(code)
    scn,        \* locals of Bus.scan: dev_id, end_id, some_dev_found
    outcome,    \* what the operation returned or raised
    hist        \* whether trace is kept (it is not when runs without end are examined)

vars == <<show, pc, op, trace, rx, pkt, rstat, scn, outcome, hist>>

-----------------------------------------------------------------------------
(* Bounds of the model *)

\* largest num_ids given to scan
MaxNum == 2

-----------------------------------------------------------------------------
(* Vocabulary of bioloid.packet (Id, Command, ErrorCode) *)

BROADCAST == 254

PING == 1
READ == 2
WRITE == 3
REG_WRITE == 4
\* Command.ACTION (ACTION is a reserved word of TLA+)
CMD_ACTION == 5
RESET == 6
SYNC_WRITE == 131

NONE == 0
OVERHEATING == 4
CHECKSUM == 16
NOT_DONE == 256
TIMEOUT == 257

SHOW_NONE == 0
SHOW_COMMANDS == 1
SHOW_PACKETS == 2

\* a byte is what a bytearray element can hold
ByteLimit == 256
IsByte(b) == b \in 0..(ByteLimit - 1)

\* the transport's 'no byte' (None of SerialPort.read_byte)
NoByte == -1

\* a line that delivers a byte on every read, without end (a chattering line):
\* this entry of rx is never used up, it alternates between its two phases
Babble == -2
BabbleOdd == -3
\* the bytes such a line delivers in turn, neither of them a marker
BabbleByte == 0
BabbleOddByte == 7

-----------------------------------------------------------------------------
(* Helpers on sequences *)

\* sum(...) of a bytearray slice, halving the slice to keep the evaluation shallow
RECURSIVE Sum(_)
Sum(s) ==
    IF Len(s) = 0 THEN 0
    ELSE IF Len(s) = 1 THEN s[1]
    ELSE LET h == Len(s) \div 2
         IN  Sum(SubSeq(s, 1, h)) + Sum(SubSeq(s, h + 1, Len(s)))

Zeros(n) == [i \in 1..n |-> 0]

\* x & 1 and x & 2 on the show bitmask
HasBit(x, bit) == (x \div bit) % 2 = 1

-----------------------------------------------------------------------------
(* Frame encoding: Bus.fill_and_write_packet *)

\* Python's  a[lo:hi] = v  on a bytearray (lo, hi counted from 0)
SliceAssign(a, lo, hi, v) ==
    LET h == IF hi > Len(a) THEN Len(a) ELSE hi
        l == IF lo > Len(a) THEN Len(a) ELSE lo
    IN  SubSeq(a, 1, l) \o v \o SubSeq(a, (IF h < l THEN l ELSE h) + 1, Len(a))

\* faulty variant: the sum without the complement
ChecksumMissingNot(body) == Sum(body) % ByteLimit
\* ~sum(pkt_bytes[2:-1]) & 0xff
Checksum(body) == (-Sum(body) - 1) % ByteLimit

\* faulty variant: the length byte left at 2
LengthByteNoData(data) == 2
\* pkt_bytes[3] = 2, then pkt_bytes[3] += len(data)
LengthByte(data) == 2 + Len(data)

\* The bytearray that fill_and_write_packet hands to write_packet, or the
\* ValueError of storing a value outside range(256) into a bytearray.
\* data = <<>> stands for data=None as well: both give the same frame.
fill_and_write_packet(dev_id, cmd, data) ==
    LET packet_len == 6 + Len(data)
        b0 == [Zeros(packet_len) EXCEPT ![1] = 255, ![2] = 255, ![3] = dev_id,
                                        ![4] = LengthByte(data), ![5] = cmd]
        b1 == SliceAssign(b0, 5, packet_len - 1, data)
        b2 == [b1 EXCEPT ![packet_len] = Checksum(SubSeq(b1, 3, packet_len - 1))]
    IN  IF ~IsByte(dev_id) \/ ~IsByte(LengthByte(data)) \/ ~IsByte(cmd)
        THEN [err |-> "ValueError", frame |-> <<>>]
        ELSE [err |-> "", frame |-> b2]

-----------------------------------------------------------------------------
(* Bus.send_write *)

\* cmd = packet.Command.REG_WRITE if deferred else packet.Command.WRITE
WriteCommand(deferred) == IF deferred THEN REG_WRITE ELSE WRITE

\* pkt_data = bytearray(len(data)); pkt_data[0] = offset; pkt_data[1:] = data
\* An empty data gives an empty bytearray, and storing at index 0 raises IndexError.
send_write_data(offset, data) ==
    LET pkt_data == Zeros(Len(data))
    IN  IF Len(pkt_data) = 0
        THEN [err |-> "IndexError", data |-> <<>>]
        ELSE [err |-> "",
              data |-> SliceAssign([pkt_data EXCEPT ![1] = offset], 1, Len(pkt_data), data)]

send_write(dev_id, offset, data, deferred) ==
    LET d == send_write_data(offset, data)
    IN  IF d.err # ""
        THEN [err |-> d.err, frame |-> <<>>]
        ELSE fill_and_write_packet(dev_id, WriteCommand(deferred), d.data)

-----------------------------------------------------------------------------
(* Bus.sync_write *)

\* the loop  for id_idx in range(num_ids)  : one ValueError at the first value
\* whose length differs, else the filled bytearray
RECURSIVE sync_write_loop(_, _, _, _, _, _)
sync_write_loop(dev_ids, values, bytes_per_id, id_idx, data_idx, data) ==
    IF id_idx >= Len(dev_ids)
    THEN [err |-> "", data |-> data]
    ELSE IF Len(values[id_idx + 1]) # bytes_per_id
    THEN [err |-> "ValueError", data |-> <<>>]
    ELSE sync_write_loop(dev_ids, values, bytes_per_id, id_idx + 1,
             data_idx + 1 + bytes_per_id,
             SliceAssign([data EXCEPT ![data_idx + 1] = dev_ids[id_idx + 1]],
                         data_idx + 1, data_idx + 1 + bytes_per_id, values[id_idx + 1]))

\* faulty variant: the number of ids stored where bytes_per_id belongs
sync_write_data_count(sh, dev_ids, offset, values) ==
    IF (HasBit(sh, SHOW_COMMANDS) /\ Len(values) = 0)
       \/ (Len(dev_ids) = Len(values) /\ Len(values) = 0)
    THEN [err |-> "IndexError", data |-> <<>>]
    ELSE IF Len(dev_ids) # Len(values)
    THEN [err |-> "ValueError", data |-> <<>>]
    ELSE sync_write_loop(dev_ids, values, Len(values[1]), 0, 2,
             [Zeros(Len(dev_ids) * (Len(values[1]) + 1) + 2)
                 EXCEPT ![1] = offset, ![2] = Len(dev_ids)])

\* The parameter bytes sync_write builds, or the exception it raises first.
\* With SHOW_COMMANDS set the log line evaluates len(values[0]) before anything
\* is validated.
sync_write_data(sh, dev_ids, offset, values) ==
    IF HasBit(sh, SHOW_COMMANDS) /\ Len(values) = 0
    THEN [err |-> "IndexError", data |-> <<>>]
    ELSE IF Len(dev_ids) # Len(values)
    THEN [err |-> "ValueError", data |-> <<>>]
    ELSE IF Len(values) = 0
    THEN [err |-> "IndexError", data |-> <<>>]
    ELSE LET num_ids == Len(dev_ids)
             bytes_per_id == Len(values[1])
             param_len == num_ids * (bytes_per_id + 1) + 2
         IN  IF ~IsByte(bytes_per_id)
             THEN [err |-> "ValueError", data |-> <<>>]
             ELSE sync_write_loop(dev_ids, values, bytes_per_id, 0, 2,
                      [Zeros(param_len) EXCEPT ![1] = offset, ![2] = bytes_per_id])

sync_write(sh, dev_ids, offset, values) ==
    LET d == sync_write_data(sh, dev_ids, offset, values)
    IN  IF d.err # ""
        THEN [err |-> d.err, frame |-> <<>>]
        ELSE fill_and_write_packet(BROADCAST, SYNC_WRITE, d.data)

-----------------------------------------------------------------------------
(* bioloid.packet.Packet: the status-frame parser fed by read_status_packet *)

NewPacket == [state |-> "seek1", dev_id |-> 0, length |-> 0, status |-> 0,
              params |-> <<>>, total |-> 0]

\* the status byte as one error code: NONE if zero, else the highest fault bit set
RECURSIVE HighestBit(_, _)
HighestBit(status, bit) ==
    IF bit = 1 \/ HasBit(status, bit) THEN bit ELSE HighestBit(status, bit \div 2)

ErrorCodeOf(status) == IF status = 0 THEN NONE ELSE HighestBit(status, ByteLimit \div 2)

\* faulty variant: a byte that is not the second marker leaves the parser
\* waiting for the second marker
after_mismatch_waits == "seek2"
\* where the parser goes when the byte after the first marker is no marker
after_mismatch == "seek1"

\* faulty variant: the checksum byte is taken without being compared
checksum_code_unchecked(p, byte) == ErrorCodeOf(p.status)
\* the code returned for the checksum byte: the resolved status when the bytes
\* from the device id on sum to 255 mod 256, CHECKSUM otherwise
checksum_code(p, byte) ==
    IF (p.total + byte) % ByteLimit = 255 THEN ErrorCodeOf(p.status) ELSE CHECKSUM

\* Packet.process_byte: the packet after the byte, and the code it returns
process_byte(p, byte) ==
    CASE p.state = "seek1" ->
           [pkt |-> [p EXCEPT !.state = IF byte = 255 THEN "seek2" ELSE "seek1"],
            code |-> NOT_DONE]
      [] p.state = "seek2" ->
           [pkt |-> [p EXCEPT !.state = IF byte = 255 THEN "id" ELSE after_mismatch],
            code |-> NOT_DONE]
      [] p.state = "id" ->
           [pkt |-> [p EXCEPT !.state = "len", !.dev_id = byte, !.total = byte],
            code |-> NOT_DONE]
      [] p.state = "len" ->
           [pkt |-> [p EXCEPT !.state = "status", !.length = byte,
                              !.total = p.total + byte],
            code |-> NOT_DONE]
      [] p.state = "status" ->
           [pkt |-> [p EXCEPT !.state = IF p.length - 2 > 0 THEN "payload" ELSE "checksum",
                              !.status = byte, !.total = p.total + byte],
            code |-> NOT_DONE]
      [] p.state = "payload" ->
           [pkt |-> [p EXCEPT !.state = IF Len(p.params) + 1 >= p.length - 2
                                        THEN "checksum" ELSE "payload",
                              !.params = Append(p.params, byte),
                              !.total = p.total + byte],
            code |-> NOT_DONE]
      [] p.state = "checksum" ->
           [pkt |-> [p EXCEPT !.state = "done", !.total = p.total + byte],
            code |-> checksum_code(p, byte)]
      [] OTHER -> [pkt |-> p, code |-> NOT_DONE]

-----------------------------------------------------------------------------
(* The transport: SerialPort.write_packet and SerialPort.read_byte *)

\* a status frame as a device puts it on the wire
StatusFrame(dev_id, status, params) ==
    LET head == <<dev_id, 2 + Len(params), status>> \o params
    IN  <<255, 255>> \o head \o <<(255 - (Sum(head) % ByteLimit))>>

\* the frame with its last byte off by one
Corrupted(frame) ==
    [frame EXCEPT ![Len(frame)] = (frame[Len(frame)] + 1) % ByteLimit]

\* What the line may deliver after a frame was written to device d: nothing, a
\* clean status, a status cut short, a damaged one, a device fault, noise before
\* the status, and a status that arrives after one read has timed out.  The
\* status of a READ carries two parameter bytes.  A broadcast frame is answered
\* by no device.
Responses(frame) ==
    LET d == frame[3]
        params == IF frame[5] = READ THEN <<33, 44>> ELSE <<>>
        clean == StatusFrame(d, 0, params)
    IN  IF d = BROADCAST
        THEN { <<>> }
        ELSE { <<>>,
               clean,
               <<255, 255, d>>,
               Corrupted(clean),
               StatusFrame(d, OVERHEATING, params),
               <<255, 7>> \o clean,
               <<NoByte>> \o clean }

\* SerialPort.read_byte: the next byte, or NoByte when none arrives in time
read_byte(queue) ==
    IF queue = <<>> THEN NoByte
    ELSE IF Head(queue) = Babble THEN BabbleByte
    ELSE IF Head(queue) = BabbleOdd THEN BabbleOddByte
    ELSE Head(queue)

\* the line after that read
after_read(queue) ==
    IF queue = <<>> THEN queue
    ELSE IF Head(queue) = Babble THEN <<BabbleOdd>> \o Tail(queue)
    ELSE IF Head(queue) = BabbleOdd THEN <<Babble>> \o Tail(queue)
    ELSE Tail(queue)

\* what the line may deliver, the chattering line included when no trace is kept
LineResponses(frame, keep) ==
    IF keep \/ frame[3] = BROADCAST
    THEN Responses(frame)
    ELSE Responses(frame) \cup { <<Babble>> }

-----------------------------------------------------------------------------
(* Records of the model *)

Ev(kind, arg) == [ev |-> kind, arg |-> arg]

\* the trace with one more event, when a trace is kept
Log(log, keep, e) == IF keep THEN Append(log, e) ELSE log

NoOp == [name |-> "", dev_id |-> 0, offset |-> 0, num |-> 0, data |-> <<>>,
         deferred |-> FALSE, dev_ids |-> <<>>, values |-> <<>>,
         dev_found |-> FALSE, dev_missing |-> FALSE]

NoOutcome == [kind |-> "", code |-> 0, flag |-> FALSE, data |-> <<>>]
RetBool(b) == [NoOutcome EXCEPT !.kind = "bool", !.flag = b]
RetCode(c) == [NoOutcome EXCEPT !.kind = "code", !.code = c]
RetData(d) == [NoOutcome EXCEPT !.kind = "data", !.data = d]
RetVoid == [NoOutcome EXCEPT !.kind = "void"]
Raised(kind, c) == [NoOutcome EXCEPT !.kind = kind, !.code = c]

NoScan == [dev_id |-> 0, end_id |-> 0, some_dev_found |-> FALSE]

-----------------------------------------------------------------------------
(* Arguments the operations are called with *)

MaxData == 2
MaxIds == 2
MaxVal == 2

DevIds == {1, 2, BROADCAST}
Offsets == {24, 30}

\* <<1, 0>> at length 2, as in WRITE(id=1, offset=0x18, data=[0x01, 0x00])
DataOfLen(n) == [j \in 1..n |-> IF j = 1 THEN 1 ELSE IF j = 2 THEN 0 ELSE 255]
\* data up to MaxData bytes, and the two lengths around the largest frame
WriteData == {DataOfLen(n) : n \in 0..MaxData}
             \cup {Zeros(ByteLimit - 4), Zeros(ByteLimit - 3)}

\* all sequences over S of length at most n
SeqsUpTo(S, n) == UNION {[1..k -> S] : k \in 0..n}

SyncIds == SeqsUpTo({1, 2}, MaxIds)
\* one value per entry of lens, the i-th of lens[i] bytes, all bytes distinct
ValuesOfLens(lens) == [i \in 1..Len(lens) |-> [j \in 1..lens[i] |-> 16 * i + j]]
SyncValues == {ValuesOfLens(lens) : lens \in SeqsUpTo(0..MaxVal, MaxIds)}
              \cup {<<Zeros(ByteLimit - 6)>>, <<Zeros(ByteLimit - 5)>>}

ScanStarts == {1, BROADCAST - 1, BROADCAST}
ScanNums == (-1)..MaxNum

-----------------------------------------------------------------------------
(* The state machine *)

\* Bus(serial_port, show) on an idle line
Constructed ==
    /\ show \in {SHOW_NONE, SHOW_COMMANDS, SHOW_PACKETS, SHOW_COMMANDS + SHOW_PACKETS}
    /\ pc = "idle"
    /\ op = NoOp
    /\ trace = <<>>
    /\ rx = <<>>
    /\ pkt = NewPacket
    /\ rstat = NONE
    /\ scn = NoScan
    /\ outcome = NoOutcome

Init == Constructed /\ hist = TRUE

\* One call of fill_and_write_packet by an operation, with built = the frame or
\* the exception raised before write_packet.  After write_packet the line may
\* answer; while bytes of an earlier answer are still waiting, it stays silent.
\* skip_read: the operation does not call read_status_packet, and ends
\* with ret.
Exchange(built, skip_read, ret, log) ==
    \E b \in {built} :
        IF b.err # ""
        THEN /\ trace' = log
             /\ rx' = rx
             /\ pkt' = pkt
             /\ pc' = "done"
             /\ outcome' = Raised(b.err, 0)
        ELSE /\ trace' = Log(log, hist, Ev("write", b.frame))
             /\ \E resp \in LineResponses(b.frame, hist) :
                    /\ (rx = <<>> \/ resp = <<>>)
                    /\ rx' = rx \o resp
             /\ IF skip_read
                THEN pc' = "done" /\ outcome' = ret /\ pkt' = pkt
                ELSE pc' = "read" /\ outcome' = NoOutcome /\ pkt' = NewPacket

\* faulty variant: a broadcast write waits for a status like any other
WriteNeverSkips(dev_id) == FALSE
\* dev_id == packet.Id.BROADCAST in Bus.write
WriteSkipsStatus(dev_id) == dev_id = BROADCAST

\* dev_id == packet.Id.BROADCAST in Bus.reset
ResetSkipsStatus(dev_id) == dev_id = BROADCAST

\* faulty variant: TIMEOUT raised again like every other error
ping_reraises(code) ==
    IF code = NONE THEN RetBool(TRUE) ELSE Raised("BusError", code)
\* faulty variant: every BusError is taken for a missing device
ping_swallows(code) == IF code = NONE THEN RetBool(TRUE) ELSE RetBool(FALSE)
\* Bus.ping: TIMEOUT is False, success is True, anything else is raised again
ping_result(code) ==
    IF code = NONE THEN RetBool(TRUE)
    ELSE IF code = TIMEOUT THEN RetBool(FALSE)
    ELSE Raised("BusError", code)

Ping(dev_id) ==
    /\ pc = "idle"
    /\ op' = [NoOp EXCEPT !.name = "ping", !.dev_id = dev_id]
    /\ Exchange(fill_and_write_packet(dev_id, PING, <<>>), FALSE, NoOutcome, trace)
    /\ UNCHANGED <<hist, show, rstat, scn>>

Read(dev_id, offset, num_bytes) ==
    /\ pc = "idle"
    /\ op' = [NoOp EXCEPT !.name = "read", !.dev_id = dev_id, !.offset = offset,
                          !.num = num_bytes]
    /\ Exchange(fill_and_write_packet(dev_id, READ, <<offset, num_bytes>>),
                FALSE, NoOutcome, trace)
    /\ UNCHANGED <<hist, show, rstat, scn>>

Write(dev_id, offset, data, deferred) ==
    /\ pc = "idle"
    /\ op' = [NoOp EXCEPT !.name = "write", !.dev_id = dev_id, !.offset = offset,
                          !.data = data, !.deferred = deferred]
    /\ Exchange(send_write(dev_id, offset, data, deferred),
                WriteSkipsStatus(dev_id), RetCode(NONE), trace)
    /\ UNCHANGED <<hist, show, rstat, scn>>

Reset(dev_id) ==
    /\ pc = "idle"
    /\ op' = [NoOp EXCEPT !.name = "reset", !.dev_id = dev_id]
    /\ Exchange(fill_and_write_packet(dev_id, RESET, <<>>),
                ResetSkipsStatus(dev_id), RetCode(NONE), trace)
    /\ UNCHANGED <<hist, show, rstat, scn>>

Action ==
    /\ pc = "idle"
    /\ op' = [NoOp EXCEPT !.name = "action"]
    /\ Exchange(fill_and_write_packet(BROADCAST, CMD_ACTION, <<>>), TRUE, RetVoid, trace)
    /\ UNCHANGED <<hist, show, rstat, scn>>

SyncWrite(dev_ids, offset, values) ==
    /\ pc = "idle"
    /\ op' = [NoOp EXCEPT !.name = "sync_write", !.dev_ids = dev_ids,
                          !.offset = offset, !.values = values]
    /\ Exchange(sync_write(show, dev_ids, offset, values), TRUE, RetVoid, trace)
    /\ UNCHANGED <<hist, show, rstat, scn>>

\* faulty variant: a checksum failure does not end the loop either
read_status_resyncs(code) == code \in {NOT_DONE, CHECKSUM}
\* if error_code == packet.ErrorCode.NOT_DONE: continue
read_status_continues(code) == code = NOT_DONE

\* faulty variant: 'no byte' sends the loop round again
byte_missing_never(byte) == FALSE
\* if byte is None: ... raise BusError(packet.ErrorCode.TIMEOUT)
byte_missing(byte) == byte = NoByte

\* Bus.read_status_packet, one turn of its loop: read_byte, then process_byte
ReadByte ==
    /\ pc = "read"
    /\ LET byte == read_byte(rx)
           q == process_byte(pkt, byte)
       IN  /\ rx' = after_read(rx)
           /\ trace' = Log(trace, hist,
                           Ev("read", IF byte = NoByte THEN <<>> ELSE <<byte>>))
           /\ IF byte_missing(byte)
              THEN pkt' = pkt /\ rstat' = TIMEOUT /\ pc' = "status"
              ELSE IF byte = NoByte     \* never so: byte_missing(NoByte) holds
              THEN UNCHANGED <<pkt, rstat, pc>>
              ELSE /\ pkt' = q.pkt
                   /\ IF read_status_continues(q.code)
                      THEN rstat' = rstat /\ pc' = "read"
                      ELSE rstat' = q.code /\ pc' = "status"
    /\ UNCHANGED <<show, op, scn, outcome, hist>>

PingReturn ==
    /\ pc = "status" /\ op.name = "ping"
    /\ outcome' = ping_result(rstat)
    /\ pc' = "done"
    /\ UNCHANGED <<hist, show, op, trace, rx, pkt, rstat, scn>>

\* return pkt.params()
ReadReturn ==
    /\ pc = "status" /\ op.name = "read"
    /\ outcome' = IF rstat = NONE THEN RetData(pkt.params) ELSE Raised("BusError", rstat)
    /\ pc' = "done"
    /\ UNCHANGED <<hist, show, op, trace, rx, pkt, rstat, scn>>

\* faulty variant: the failure is handed back as the return value
WriteReturnsFailure ==
    /\ pc = "status" /\ op.name = "write"
    /\ outcome' = RetCode(rstat)
    /\ pc' = "done"
    /\ UNCHANGED <<hist, show, op, trace, rx, pkt, rstat, scn>>

\* return pkt.error_code()
WriteReturn ==
    /\ pc = "status" /\ op.name = "write"
    /\ outcome' = IF rstat = NONE THEN RetCode(ErrorCodeOf(pkt.status))
                                  ELSE Raised("BusError", rstat)
    /\ pc' = "done"
    /\ UNCHANGED <<hist, show, op, trace, rx, pkt, rstat, scn>>

ResetReturn ==
    /\ pc = "status" /\ op.name = "reset"
    /\ outcome' = IF rstat = NONE THEN RetCode(ErrorCodeOf(pkt.status))
                                  ELSE Raised("BusError", rstat)
    /\ pc' = "done"
    /\ UNCHANGED <<hist, show, op, trace, rx, pkt, rstat, scn>>

-----------------------------------------------------------------------------
(* Bus.scan *)

\* faulty variant: end_id not clipped
scan_end_id_unclipped(start_id, num_ids) == start_id + num_ids - 1
\* end_id = start_id + num_ids - 1, clipped to BROADCAST - 1
scan_end_id(start_id, num_ids) ==
    LET end_id == start_id + num_ids - 1
    IN  IF end_id >= BROADCAST THEN BROADCAST - 1 ELSE end_id

\* faulty variant: the result of the last ping only
some_found_last(some_dev_found, found) == found
\* some_dev_found after a ping that returned found
some_found(some_dev_found, found) == IF found THEN TRUE ELSE some_dev_found

\* faulty variant: the two callbacks exchanged
callback_swapped(log, o, dev_id, found) ==
    IF found
    THEN IF o.dev_missing THEN Log(log, hist, Ev("dev_missing", <<dev_id>>)) ELSE log
    ELSE IF o.dev_found THEN Log(log, hist, Ev("dev_found", <<dev_id>>)) ELSE log
\* the callback of one id: dev_found / dev_missing, when the caller gave one
callback(log, o, dev_id, found) ==
    IF found
    THEN IF o.dev_found THEN Log(log, hist, Ev("dev_found", <<dev_id>>)) ELSE log
    ELSE IF o.dev_missing THEN Log(log, hist, Ev("dev_missing", <<dev_id>>)) ELSE log

\* the head of  for dev_id in range(start_id, end_id + 1) : ping the next id, or
\* leave the loop and return some_dev_found
ScanLoop(dev_id, end_id, some_dev_found, log) ==
    /\ scn' = [dev_id |-> dev_id, end_id |-> end_id, some_dev_found |-> some_dev_found]
    /\ IF dev_id <= end_id
       THEN Exchange(fill_and_write_packet(dev_id, PING, <<>>), FALSE, NoOutcome, log)
       ELSE /\ pc' = "done"
            /\ outcome' = RetBool(some_dev_found)
            /\ trace' = log
            /\ UNCHANGED <<rx, pkt>>

Scan(start_id, num_ids, dev_found, dev_missing) ==
    /\ pc = "idle"
    /\ op' = [NoOp EXCEPT !.name = "scan", !.dev_id = start_id, !.num = num_ids,
                          !.dev_found = dev_found, !.dev_missing = dev_missing]
    /\ ScanLoop(start_id, scan_end_id(start_id, num_ids), FALSE, trace)
    /\ UNCHANGED <<hist, show, rstat>>

\* the ping of scn.dev_id has ended: raise its BusError, or call back and go on
ScanStep ==
    /\ pc = "status" /\ op.name = "scan"
    /\ LET res == ping_result(rstat)
       IN  IF res.kind = "BusError"
           THEN /\ outcome' = res
                /\ pc' = "done"
                /\ UNCHANGED <<trace, rx, pkt, scn>>
           ELSE ScanLoop(scn.dev_id + 1, scn.end_id,
                         some_found(scn.some_dev_found, res.flag),
                         callback(trace, op, scn.dev_id, res.flag))
    /\ UNCHANGED <<hist, show, op, rstat>>

\* the caller takes the result; the Bus keeps nothing but its transport
Return ==
    /\ pc = "done"
    /\ pc' = "idle"
    /\ op' = NoOp
    /\ trace' = <<>>
    /\ pkt' = NewPacket
    /\ rstat' = NONE
    /\ scn' = NoScan
    /\ outcome' = NoOutcome
    /\ UNCHANGED <<hist, show, rx>>

Next ==
    \/ \E d \in DevIds : Ping(d)
    \/ \E d \in DevIds, o \in Offsets : Read(d, o, 2)
    \/ \E d \in DevIds, o \in Offsets, data \in WriteData, deferred \in BOOLEAN :
           Write(d, o, data, deferred)
    \/ \E d \in DevIds : Reset(d)
    \/ Action
    \/ \E ids \in SyncIds, o \in Offsets, values \in SyncValues : SyncWrite(ids, o, values)
    \/ ReadByte
    \/ PingReturn
    \/ ReadReturn
    \/ WriteReturn
    \/ ResetReturn
    \/ \E s \in ScanStarts, n \in ScanNums, f \in BOOLEAN, m \in BOOLEAN : Scan(s, n, f, m)
    \/ ScanStep
    \/ Return

Spec == Init /\ [][Next]_vars

-----------------------------------------------------------------------------
(* Runs without end: no trace is kept, the line may deliver bytes for ever, and
   an operation that was called keeps running, since the code of an operation
   is one thread that nothing suspends *)

InitLive == Constructed /\ hist = FALSE

\* the steps of an operation after its first
Step ==
    \/ ReadByte
    \/ PingReturn
    \/ ReadReturn
    \/ WriteReturn
    \/ ResetReturn
    \/ ScanStep

SpecLive == InitLive /\ [][Next]_vars /\ WF_vars(Step)

-----------------------------------------------------------------------------
(* The parser on its own: a fresh Packet is fed a byte sequence, one byte at a
   time, as read_status_packet feeds it.  op.dev_ids holds the noise that
   comes first and op.data the status frame that follows it. *)

MaxNoise == 3
NoiseBytes == {7, 255}
Noises == SeqsUpTo(NoiseBytes, MaxNoise)

ParserIds == {1, BROADCAST - 1}
ParserStatuses == {0, OVERHEATING}
ParserParams == {<<>>, <<33>>, <<33, 44>>}

\* a status frame with the given last byte
FrameWithChecksum(dev_id, status, params, cks) ==
    <<255, 255, dev_id, 2 + Len(params), status>> \o params \o <<cks>>

\* frames with every last byte, fed without noise; well-formed frames after noise
InitParser ==
    /\ show = SHOW_NONE
    /\ pc = "parse"
    /\ \E d \in ParserIds, st \in ParserStatuses, params \in ParserParams :
          \/ \E cks \in 0..(ByteLimit - 1) :
                /\ op = [NoOp EXCEPT !.name = "parse",
                                     !.data = FrameWithChecksum(d, st, params, cks)]
                /\ rx = op.data
          \/ \E noise \in Noises :
                /\ op = [NoOp EXCEPT !.name = "parse", !.dev_ids = noise,
                                     !.data = StatusFrame(d, st, params)]
                /\ rx = noise \o op.data
    /\ trace = <<>>
    /\ pkt = NewPacket
    /\ rstat = NOT_DONE
    /\ scn = NoScan
    /\ outcome = NoOutcome
    /\ hist = TRUE

\* error_code = pkt.process_byte(byte) on the next byte, until the parser ends
ParseByte ==
    /\ pc = "parse"
    /\ rx # <<>>
    /\ LET q == process_byte(pkt, Head(rx))
       IN  /\ pkt' = q.pkt
           /\ rstat' = q.code
           /\ pc' = IF q.code = NOT_DONE THEN "parse" ELSE "parsed"
    /\ rx' = Tail(rx)
    /\ trace' = Append(trace, Ev("read", <<Head(rx)>>))
    /\ UNCHANGED <<show, op, scn, outcome, hist>>

NextParser == ParseByte

SpecParser == InitParser /\ [][NextParser]_vars

-----------------------------------------------------------------------------
(* Reading the trace *)

IsWrite(i) == trace[i].ev = "write"
IsRead(i) == trace[i].ev = "read"
IsCallback(i) == trace[i].ev \in {"dev_found", "dev_missing"}

WriteIdx == {i \in DOMAIN trace : IsWrite(i)}
ReadIdx == {i \in DOMAIN trace : IsRead(i)}
CallbackIdx == {i \in DOMAIN trace : IsCallback(i)}

\* how many frames were written up to and including event i
WritesUpTo(i) == Cardinality({j \in WriteIdx : j <= i})
CallbacksUpTo(i) == Cardinality({j \in CallbackIdx : j <= i})

\* the fields of a written frame
FrameId(f) == f[3]
FrameLength(f) == f[4]
FrameCommand(f) == f[5]
FramePayload(f) == SubSeq(f, 6, Len(f) - 1)

\* the operation has run its sending part
Started == pc # "idle"
Finished == pc = "done"
ReturnedValue == Finished /\ outcome.kind \in {"bool", "code", "data", "void"}

-----------------------------------------------------------------------------
(* C1 *)

\* C1: every frame handed to write_packet, by any operation, has the bytes from
\* the device id (index 2) through the checksum (last index) sum to 255 mod 256.
C1_ChecksumInvariant ==
    \A i \in WriteIdx :
        LET f == trace[i].arg
        IN  Sum(SubSeq(f, 3, Len(f))) % ByteLimit = 255

\* a sync_write frame with a payload, whose byte sum wraps round 256
C1_Witness ==
    /\ op.name = "sync_write"
    /\ \E i \in WriteIdx :
           /\ Len(FramePayload(trace[i].arg)) > 2
           /\ Sum(SubSeq(trace[i].arg, 3, Len(trace[i].arg) - 1)) > ByteLimit

-----------------------------------------------------------------------------
(* C2 *)

\* the device a frame of the operation is addressed to: the k-th frame of a scan
\* goes to start_id + k - 1
ExpectedId(i) ==
    CASE op.name \in {"action", "sync_write"} -> BROADCAST
      [] op.name = "scan" -> op.dev_id + WritesUpTo(i) - 1
      [] OTHER -> op.dev_id

ExpectedCommands ==
    CASE op.name \in {"ping", "scan"} -> {PING}
      [] op.name = "read" -> {READ}
      [] op.name = "write" -> {WRITE, REG_WRITE}
      [] op.name = "reset" -> {RESET}
      [] op.name = "action" -> {CMD_ACTION}
      [] op.name = "sync_write" -> {SYNC_WRITE}
      [] OTHER -> {}

\* C2: every frame handed to write_packet is 0xFF 0xFF device_id length command
\* payload... checksum, with length = 2 + len(payload) and 6 + len(payload) bytes
\* in all; the operations without parameters send an empty payload, read sends
\* [offset, num_bytes].
C2_FrameLayout ==
    \A i \in WriteIdx :
        LET f == trace[i].arg
        IN  /\ Len(f) >= 6
            /\ \A k \in DOMAIN f : IsByte(f[k])
            /\ f[1] = 255 /\ f[2] = 255
            /\ FrameId(f) = ExpectedId(i)
            /\ FrameCommand(f) \in ExpectedCommands
            /\ FrameLength(f) = 2 + Len(FramePayload(f))
            /\ Len(f) = 6 + Len(FramePayload(f))
            /\ op.name \in {"ping", "scan", "reset", "action"} => FramePayload(f) = <<>>
            /\ op.name = "read" => FramePayload(f) = <<op.offset, op.num>>
            /\ op.name = "write" => Len(FramePayload(f)) = 1 + Len(op.data)
            /\ op.name = "sync_write" => Len(FramePayload(f)) > 1

\* the longest frame there is: a write whose length byte is 255
C2_Witness ==
    /\ op.name = "write"
    /\ \E i \in WriteIdx : FrameLength(trace[i].arg) = ByteLimit - 1

-----------------------------------------------------------------------------
(* C3 *)

\* the frame of section 6 of the specification, written out field by field
WireFrame(dev_id, cmd, payload) ==
    LET body == <<dev_id, 2 + Len(payload), cmd>> \o payload
    IN  <<255, 255>> \o body \o <<255 - (Sum(body) % ByteLimit)>>

\* C3: write(id, offset, data, deferred) transmits one frame, WRITE when not
\* deferred and REG_WRITE when deferred, whose payload is [offset] followed by
\* data, for data of every length that fits a frame, the empty one included;
\* write(1, 0x18, [0x01, 0x00]) transmits FF FF 01 05 03 18 01 00 DD.
C3_WriteFrame ==
    (op.name = "write" /\ Started /\ 3 + Len(op.data) < ByteLimit) =>
        /\ Cardinality(WriteIdx) = 1
        /\ IsWrite(1)
        /\ trace[1].arg = WireFrame(op.dev_id, IF op.deferred THEN REG_WRITE ELSE WRITE,
                                    <<op.offset>> \o op.data)
        /\ (op.dev_id = 1 /\ op.offset = 24 /\ op.data = <<1, 0>> /\ ~op.deferred)
               => trace[1].arg = <<255, 255, 1, 5, 3, 24, 1, 0, 221>>

-----------------------------------------------------------------------------
(* C4 *)

\* the read_byte call that came last reported 'no byte'
LastReadTimedOut ==
    /\ trace # <<>>
    /\ IsRead(Len(trace))
    /\ trace[Len(trace)].arg = <<>>

\* the parser has taken a whole status frame: checksum right, status byte zero
CleanStatusParsed ==
    /\ pkt.state = "done"
    /\ pkt.total % ByteLimit = 255
    /\ pkt.status = 0

\* C4: ping returns false, and raises nothing, when read_byte reports 'no byte'
\* before a status frame is complete, on the first byte or after part of a
\* frame; it returns true when a whole status frame with a valid checksum and no
\* fault was parsed.
C4_PingTimeoutIsFalse ==
    (op.name = "ping" /\ Finished) =>
        /\ LastReadTimedOut => outcome = RetBool(FALSE)
        /\ CleanStatusParsed => outcome = RetBool(TRUE)
        /\ LastReadTimedOut \/ pkt.state = "done"

\* a ping that timed out after part of a frame had arrived
C4_Witness ==
    /\ op.name = "ping" /\ Finished
    /\ LastReadTimedOut
    /\ Cardinality(ReadIdx) > 2
    /\ pkt.state = "len"
    /\ outcome = RetBool(FALSE)

-----------------------------------------------------------------------------
(* C5 *)

BroadcastOp ==
    \/ op.name \in {"action", "sync_write"}
    \/ op.name \in {"write", "reset"} /\ op.dev_id = BROADCAST

\* C5: write and reset to the broadcast id, and action and sync_write always,
\* never call read_byte: the operation ends after its single write_packet, write
\* and reset return NONE, and no BusError is raised, whatever bytes wait on the
\* line.
C5_BroadcastNeverReads ==
    BroadcastOp =>
        /\ ReadIdx = {}
        /\ pc \notin {"read", "status"}
        /\ outcome.kind # "BusError"
        /\ Cardinality(WriteIdx) <= 1
        /\ (Started /\ WriteIdx # {}) =>
               /\ Finished
               /\ trace = <<Ev("write", trace[1].arg)>>
               /\ op.name \in {"write", "reset"} => outcome = RetCode(NONE)
               /\ op.name \in {"action", "sync_write"} => outcome = RetVoid

\* a broadcast write that returned NONE while bytes were waiting on the line
C5_Witness ==
    /\ op.name = "write" /\ op.dev_id = BROADCAST
    /\ Finished
    /\ rx # <<>>
    /\ WriteIdx # {}
    /\ outcome = RetCode(NONE)

-----------------------------------------------------------------------------
(* C6, C7 *)

SameLengths(values) ==
    \A i, j \in DOMAIN values : Len(values[i]) = Len(values[j])

ValidDims == Len(op.dev_ids) = Len(op.values) /\ SameLengths(op.values)

\* C6: a sync_write whose ids and values differ in number, or whose values
\* differ in length (ids or values may be empty), fails with ValueError and
\* write_packet is never called.
C6_SyncWriteValidation ==
    (op.name = "sync_write" /\ Started /\ ~ValidDims) =>
        /\ outcome.kind = "ValueError"
        /\ WriteIdx = {}

\* the payload of the claim, position by position (counted from 1)
IsSyncPayload(payload, dev_ids, offset, values, n) ==
    /\ Len(payload) = 2 + Len(dev_ids) * (n + 1)
    /\ payload[1] = offset
    /\ payload[2] = n
    /\ \A i \in DOMAIN dev_ids :
           /\ payload[2 + (i - 1) * (n + 1) + 1] = dev_ids[i]
           /\ \A j \in 1..n : payload[2 + (i - 1) * (n + 1) + 1 + j] = values[i][j]

\* one frame to the broadcast id, SYNC_WRITE, with the payload of the claim
SyncFrameSent(n) ==
    /\ Cardinality(WriteIdx) = 1
    /\ IsWrite(1)
    /\ FrameId(trace[1].arg) = BROADCAST
    /\ FrameCommand(trace[1].arg) = SYNC_WRITE
    /\ IsSyncPayload(FramePayload(trace[1].arg), op.dev_ids, op.offset, op.values, n)

\* the payload of the call fits the length byte of a frame
SyncFits(n) == 2 + (2 + Len(op.dev_ids) * (n + 1)) < ByteLimit

-----------------------------------------------------------------------------
(* C8, C9, C10 *)

\* the ids of the range of the scan, as the claim gives it
ScanRange ==
    {k \in op.dev_id..(op.dev_id + op.num - 1) : k < BROADCAST}

\* C8: with both callbacks given, and as long as no ping has raised, scan probes
\* the ids in ascending order one at a time: the k-th PING goes to start_id+k-1,
\* the k-th callback is for start_id+k-1 and follows the read that resolved the
\* k-th ping (dev_missing after 'no byte', dev_found after a completed frame),
\* the next PING is written right after that callback, and a scan that returns
\* has called back once for every id of its range.
C8_ScanSequential ==
    (op.name = "scan" /\ op.dev_found /\ op.dev_missing) =>
        /\ \A i \in WriteIdx :
               /\ FrameId(trace[i].arg) = op.dev_id + WritesUpTo(i) - 1
               /\ FrameCommand(trace[i].arg) = PING
               /\ CallbacksUpTo(i) = WritesUpTo(i) - 1
               /\ i > 1 => IsCallback(i - 1)
        /\ \A i \in CallbackIdx :
               /\ trace[i].arg = <<op.dev_id + CallbacksUpTo(i) - 1>>
               /\ WritesUpTo(i) = CallbacksUpTo(i)
               /\ i > 1 /\ IsRead(i - 1)
               /\ trace[i].ev = "dev_missing" <=> trace[i - 1].arg = <<>>
               /\ trace[i].ev = "dev_found" <=> trace[i - 1].arg # <<>>
        /\ \A i \in ReadIdx :
               /\ i > 1 /\ (IsWrite(i - 1) \/ IsRead(i - 1))
               /\ IsRead(i - 1) => trace[i - 1].arg # <<>>
        /\ ReturnedValue =>
               {trace[i].arg[1] : i \in CallbackIdx} = ScanRange
        /\ (ReturnedValue /\ trace # <<>>) => IsCallback(Len(trace))

\* a scan of two ids that called dev_found for the first and dev_missing for
\* the second
C8_Witness ==
    /\ op.name = "scan" /\ op.dev_found /\ op.dev_missing
    /\ ReturnedValue
    /\ Cardinality(CallbackIdx) = 2
    /\ \E i, j \in CallbackIdx :
           i < j /\ trace[i].ev = "dev_found" /\ trace[j].ev = "dev_missing"

\* a ping of the scan returned true: its reads ended with a byte, not 'no byte'
\* (said of a scan that returned, in which no ping raised)
SomePingTrue ==
    \E i \in ReadIdx :
        /\ trace[i].arg # <<>>
        /\ i = Len(trace) \/ ~IsRead(i + 1)

\* C9: a scan that returns, returns true exactly when one of its pings returned
\* true; it returns false when every ping timed out and when the range is empty
\* (num_ids <= 0, or start_id at or above the broadcast id).
C9_ScanResult ==
    (op.name = "scan" /\ ReturnedValue) =>
        /\ outcome.kind = "bool"
        /\ outcome.flag <=> SomePingTrue
        /\ (op.num <= 0 \/ op.dev_id >= BROADCAST) => (~outcome.flag /\ trace = <<>>)

\* a scan that returned true although its last ping timed out
C9_Witness ==
    /\ op.name = "scan" /\ ReturnedValue
    /\ outcome = RetBool(TRUE)
    /\ \E i \in ReadIdx : trace[i].arg = <<>> /\ \A j \in ReadIdx : j <= i

\* C10: the PING frames of a scan go to start_id, start_id + 1, ... without a
\* gap, never to the broadcast id or above, never past start_id + num_ids - 1;
\* a scan that returns has pinged exactly the ids from start_id to
\* min(start_id + num_ids - 1, BROADCAST - 1).
C10_ScanRange ==
    op.name = "scan" =>
        /\ \A i \in WriteIdx :
               /\ FrameId(trace[i].arg) = op.dev_id + WritesUpTo(i) - 1
               /\ FrameId(trace[i].arg) < BROADCAST
               /\ FrameId(trace[i].arg) <= op.dev_id + op.num - 1
        /\ ReturnedValue =>
               {FrameId(trace[i].arg) : i \in WriteIdx} = ScanRange

\* a scan from BROADCAST - 1 over two ids or more returned after a single PING
C10_Witness ==
    /\ op.name = "scan" /\ ReturnedValue
    /\ op.dev_id = BROADCAST - 1 /\ op.num >= 2
    /\ Cardinality(WriteIdx) = 1


-----------------------------------------------------------------------------
(* C11 *)

\* an operation that waits for the status of one device
AwaitsStatus == op.name \in {"read", "write", "reset"} /\ ReadIdx # {}

\* the parser has taken a whole frame whose checksum is wrong
BadChecksumParsed == pkt.state = "done" /\ pkt.total % ByteLimit # 255

\* the parser has taken a whole frame, checksum right, that reports a fault
FaultParsed ==
    /\ pkt.state = "done"
    /\ pkt.total % ByteLimit = 255
    /\ pkt.status # 0

\* C11: in read, write and reset to one device every outcome other than success
\* is a raised BusError that carries the code: 'no byte' gives TIMEOUT, a wrong
\* checksum gives CHECKSUM, a fault in the status byte gives that fault's code.
\* ping raises the same BusError for a wrong checksum and for a fault.  Whenever
\* write or reset returns a value, that value is NONE, and whatever read, write
\* or reset returns was taken from a clean status.
C11_ErrorsAreRaised ==
    /\ (AwaitsStatus /\ Finished) =>
          /\ LastReadTimedOut => outcome = Raised("BusError", TIMEOUT)
          /\ BadChecksumParsed => outcome = Raised("BusError", CHECKSUM)
          /\ FaultParsed =>
                /\ outcome = Raised("BusError", ErrorCodeOf(pkt.status))
                /\ HasBit(pkt.status, outcome.code)
          /\ outcome.kind \in {"code", "data"} => CleanStatusParsed
          /\ outcome.kind \in {"BusError", "code", "data"}
    /\ (op.name = "ping" /\ Finished) =>
          /\ BadChecksumParsed => outcome = Raised("BusError", CHECKSUM)
          /\ FaultParsed => outcome = Raised("BusError", ErrorCodeOf(pkt.status))
    /\ (op.name \in {"write", "reset"} /\ Finished /\ outcome.kind = "code") =>
          outcome.code = NONE

\* a write to one device ended by the BusError of an overheating fault
C11_Witness ==
    /\ op.name = "write" /\ Finished
    /\ op.dev_id # BROADCAST
    /\ FaultParsed
    /\ outcome = Raised("BusError", OVERHEATING)


-----------------------------------------------------------------------------
(* C12 *)

\* the parser of a fresh read_status_packet after the bytes were fed to it
RECURSIVE Feed(_, _)
Feed(p, bytes) ==
    IF bytes = <<>> THEN p ELSE Feed(process_byte(p, Head(bytes)).pkt, Tail(bytes))

\* the bytes of the read events lo..hi of the trace
RECURSIVE BytesOf(_, _)
BytesOf(lo, hi) == IF lo > hi THEN <<>> ELSE BytesOf(lo, hi - 1) \o trace[hi].arg

\* the last write_packet before event i (0 when there is none)
LastWriteBefore(i) ==
    IF \E j \in WriteIdx : j < i
    THEN CHOOSE j \in WriteIdx : j < i /\ \A k \in WriteIdx : k < i => k <= j
    ELSE 0

\* the reads that went before read i in the same read_status_packet all gave a
\* byte, and those bytes had not brought the parser to its end
StatusStillOpen(i) ==
    LET w == LastWriteBefore(i)
    IN  /\ \A j \in (w + 1)..(i - 1) : IsRead(j) /\ trace[j].arg # <<>>
        /\ Feed(NewPacket, BytesOf(w + 1, i - 1)).state # "done"

SingleOp == op.name \in {"ping", "read", "write", "reset", "action", "sync_write"}

\* no operation but scan writes a second frame
C12_AtMostOnce == SingleOp => Cardinality(WriteIdx) <= 1

\* no read_byte after the read that ended the wait for a status
C12_OneStatus == \A i \in ReadIdx : StatusStillOpen(i)

\* scan has written exactly one frame to each id it has probed so far
C12_ScanOncePerId ==
    (op.name = "scan" /\ Started) =>
        LET last == IF scn.dev_id <= scn.end_id THEN scn.dev_id ELSE scn.end_id
        IN  /\ \A d \in op.dev_id..last :
                   Cardinality({i \in WriteIdx : FrameId(trace[i].arg) = d}) = 1
            /\ Cardinality(WriteIdx) = Cardinality(op.dev_id..last)

\* the one frame is written unless the arguments were refused with ValueError
C12_ExactlyOnce ==
    (SingleOp /\ Started) =>
        \/ Cardinality(WriteIdx) = 1
        \/ Finished /\ outcome.kind = "ValueError"

\* C12: there are no retries.  Each ping, read, write, reset, action and
\* sync_write calls write_packet at most once, exactly once unless validation
\* fails, and reads at most one status frame whatever the outcome; scan calls
\* write_packet exactly once for each id it probes.
C12_NoRetries ==
    /\ C12_AtMostOnce
    /\ C12_ExactlyOnce
    /\ C12_OneStatus
    /\ C12_ScanOncePerId


-----------------------------------------------------------------------------
(* C13 *)

\* the values show is given
ShowValues == {SHOW_NONE, SHOW_COMMANDS, SHOW_PACKETS, SHOW_COMMANDS + SHOW_PACKETS}

\* what a Bus with show = sh does on the finished sync_write call equals what
\* this Bus did: the same frame written and a plain return, or the same error
\* and nothing written
SameAsWithShow(sh) ==
    LET other == sync_write(sh, op.dev_ids, op.offset, op.values)
    IN  IF other.err # ""
        THEN trace = <<>> /\ outcome = Raised(other.err, 0)
        ELSE trace = <<Ev("write", other.frame)>> /\ outcome = RetVoid

\* C13: show never affects the protocol.  Two Bus instances that differ only in
\* show, given the same call and the same transport, make the same write_packet
\* and read_byte calls with the same bytes and end with the same outcome (the
\* same return value, or the same kind of error with the same code).  show is
\* read by sync_write alone, so the two are compared on every sync_write call.
C13_ShowIsObservational ==
    (op.name = "sync_write" /\ Finished) => \A sh \in ShowValues : SameAsWithShow(sh)


-----------------------------------------------------------------------------
(* C14 *)

\* the bytes of a frame from the device id through the last sum to 255 mod 256
WellSummed(frame) == Sum(SubSeq(frame, 3, Len(frame))) % ByteLimit = 255

\* the parser has ended with the frame taken whole: the code is the resolved
\* status (NONE for a zero status byte, else a fault that is set in it), and
\* device id and payload are the bytes of the frame
CompleteFor(frame) ==
    /\ pc = "parsed"
    /\ pkt.state = "done"
    /\ IF frame[5] = 0 THEN rstat = NONE ELSE HasBit(frame[5], rstat)
    /\ pkt.dev_id = FrameId(frame)
    /\ pkt.params = FramePayload(frame)

\* C14: fed the two markers, a device id, a length L, a status byte, L - 2
\* payload bytes and a checksum byte, the parser answers NOT_DONE until the
\* checksum byte is taken; on that byte it completes, with device id and payload
\* equal to the bytes fed and NONE for a zero status byte, exactly when the bytes
\* from the device id through the checksum sum to 255 mod 256, and fails with
\* CHECKSUM otherwise.
C14_ParserCompletes ==
    (op.name = "parse" /\ op.dev_ids = <<>>) =>
        /\ Len(trace) < Len(op.data) => (pc = "parse" /\ rstat = NOT_DONE)
        /\ Len(trace) = Len(op.data) =>
              IF WellSummed(op.data)
              THEN CompleteFor(op.data)
              ELSE pc = "parsed" /\ rstat = CHECKSUM

\* FF FF 01 02 00 FC has been fed: complete, device id 1, no payload
C14_Witness ==
    /\ op.name = "parse" /\ op.dev_ids = <<>>
    /\ op.data = <<255, 255, 1, 2, 0, 252>>
    /\ rx = <<>>
    /\ rstat = NONE
    /\ pkt.dev_id = 1 /\ pkt.params = <<>>

-----------------------------------------------------------------------------
(* C15 *)

\* the bytes fed so far
FedBytes == BytesOf(1, Len(trace))

\* the last byte fed was no marker and met the parser seeking a marker
NonMarkerWhileSeeking ==
    /\ trace # <<>>
    /\ FedBytes[Len(trace)] # 255
    /\ Feed(NewPacket, SubSeq(FedBytes, 1, Len(trace) - 1)).state \in {"seek1", "seek2"}

\* a non-marker byte met while seeking leaves the parser seeking, with NOT_DONE
C15_StaysSeeking ==
    (op.name = "parse" /\ NonMarkerWhileSeeking) =>
        /\ pkt.state \in {"seek1", "seek2"}
        /\ rstat = NOT_DONE
        /\ pc = "parse"

\* every marker byte of the noise is directly followed by a byte that is none
NoMarkerPair(noise) ==
    \A k \in DOMAIN noise : noise[k] = 255 => (k < Len(noise) /\ noise[k + 1] # 255)

AllFed == op.name = "parse" /\ Len(trace) = Len(op.dev_ids) + Len(op.data)

\* C15 as stated: while seeking a marker, a byte that is not the marker leaves the
\* parser seeking with NOT_DONE, never a failure, and after any finite sequence
\* of noise bytes followed by a well-formed status frame the parser has completed
\* for that frame.
C15_NoiseThenFrame_Original ==
    /\ C15_StaysSeeking
    /\ (op.name = "parse" /\ WellSummed(op.data)) =>
          /\ Len(trace) < Len(op.dev_ids) + Len(op.data) => pc = "parse"
          /\ AllFed => CompleteFor(op.data)

\* C15: while seeking a marker, a byte that is not the marker leaves the parser
\* seeking with NOT_DONE, never a failure, and after a finite sequence of noise
\* bytes in which every marker byte is directly followed by a non-marker byte,
\* followed by a well-formed status frame, the parser has completed for that
\* frame, and not before its last byte.
C15_NoiseThenFrame ==
    /\ C15_StaysSeeking
    /\ (op.name = "parse" /\ WellSummed(op.data) /\ NoMarkerPair(op.dev_ids)) =>
          /\ Len(trace) < Len(op.dev_ids) + Len(op.data) => pc = "parse"
          /\ AllFed => CompleteFor(op.data)

\* three noise bytes, a marker among them, then a frame with payload: complete
C15_Witness ==
    /\ AllFed
    /\ op.dev_ids = <<7, 255, 7>>
    /\ Len(FramePayload(op.data)) = 2
    /\ CompleteFor(op.data)


-----------------------------------------------------------------------------
(* C16 *)

\* C16: in every operation that waits for a status, write_packet comes strictly
\* before the first read_byte; the bytes are pulled one at a time and each is fed
\* to the parser before the next is pulled; and no read_byte follows the read
\* that completed or failed the parser, or the read that gave 'no byte'.
C16_WriteThenReads ==
    /\ \A i \in ReadIdx :
          /\ LastWriteBefore(i) > 0
          /\ Len(trace[i].arg) <= 1
          /\ StatusStillOpen(i)
    /\ (trace # <<>> /\ IsRead(Len(trace))) =>
          pkt = Feed(NewPacket, BytesOf(LastWriteBefore(Len(trace)) + 1, Len(trace)))

\* a read that returned its two data bytes: one write, then the eight bytes of
\* the status, one read_byte each
C16_Witness ==
    /\ op.name = "read" /\ Finished
    /\ outcome = RetData(<<33, 44>>)
    /\ IsWrite(1)
    /\ ReadIdx = 2..9
    /\ Len(trace) = 9


-----------------------------------------------------------------------------
(* C17 *)

\* the device id of the status frame parsed in front of callback event i
AnsweredBy(i) ==
    Feed(NewPacket, BytesOf(LastWriteBefore(i) + 1, i - 1)).dev_id

\* C17: ping(id) returns true only if the device with that id answered: the
\* status frame that was parsed carries a device id equal to id.  The same holds
\* for each id that scan reports through on_found, also when bytes of an earlier
\* operation were left on the line.
C17_PingAnswersForId ==
    /\ (op.name = "ping" /\ Finished /\ outcome = RetBool(TRUE)) =>
          pkt.dev_id = op.dev_id
    /\ op.name = "scan" =>
          \A i \in CallbackIdx :
              trace[i].ev = "dev_found" => AnsweredBy(i) = trace[i].arg[1]


-----------------------------------------------------------------------------
(* C18 *)

\* an operation is inside read_status_packet, or between it and its return
Running == pc \in {"read", "status"}

\* the operation is reading a line that delivers a byte on every read_byte,
\* none of them a marker
Babbling == pc = "read" /\ rx # <<>> /\ Head(rx) \in {Babble, BabbleOdd}

\* C18 as stated: every operation that waits for a status terminates under any
\* transport whose read_byte always returns a byte or 'no byte', also when the
\* transport keeps delivering bytes that never form a complete frame.
C18_Terminates_Original == Running ~> Finished

\* C18: every operation that waits for a status terminates under any transport
\* whose read_byte always returns, unless the transport keeps delivering bytes
\* that never form a complete frame: an operation either ends or is reading
\* such a line.
C18_Terminates == Running ~> (Finished \/ Babbling)

\* a read ended by 'no byte' after the line had delivered part of a frame
C18_Witness ==
    /\ hist = FALSE
    /\ op.name = "read" /\ Finished
    /\ pkt.state = "len"
    /\ outcome = Raised("BusError", TIMEOUT)


-----------------------------------------------------------------------------
(* C19 *)

\* the ping that scan is at has failed with a code other than TIMEOUT
ScanPingFailed == op.name = "scan" /\ rstat \notin {NONE, TIMEOUT}

\* the callback events for device d
CallbacksFor(d) == {i \in CallbackIdx : trace[i].arg = <<d>>}

\* C19: when a ping inside scan fails with an error other than a timeout
\* (CHECKSUM or a device fault), scan raises that BusError at once: no callback
\* is called for that id, no PING is sent to a higher id, and the callbacks
\* already called for lower ids stay as they were.
C19_ScanPropagates ==
    ScanPingFailed =>
        /\ pc \in {"status", "done"}
        /\ pc = "done" => outcome = Raised("BusError", rstat)
        /\ IsRead(Len(trace))
        /\ CallbacksFor(scn.dev_id) = {}
        /\ \A i \in WriteIdx : FrameId(trace[i].arg) <= scn.dev_id
        /\ (op.dev_found /\ op.dev_missing) =>
              \A d \in op.dev_id..(scn.dev_id - 1) : Cardinality(CallbacksFor(d)) = 1

\* a scan of two ids ended by the checksum failure of the first: the second id
\* was never pinged and no callback ran
C19_Witness ==
    /\ ScanPingFailed /\ Finished
    /\ op.num = 2 /\ scn.end_id = op.dev_id + 1
    /\ scn.dev_id = op.dev_id
    /\ op.dev_found /\ op.dev_missing
    /\ outcome = Raised("BusError", CHECKSUM)
    /\ Cardinality(WriteIdx) = 1
    /\ CallbackIdx = {}

====
